---------------------------- MODULE Spec2Model ----------------------------
(***************************************************************************)
(* Model of pdfParser.py: the scale-resolution and value-extraction engine *)
(* that scans a document for its largest scaled number.                    *)
(*                                                                         *)
(* Text is modelled character by character: a string is a sequence of      *)
(* one-character strings.  The two regular expressions of the program are  *)
(* modelled by explicit backtracking matchers over such sequences.         *)
(* Decimal values are exact: a coefficient and a power-of-ten exponent.    *)
(*                                                                         *)
(* Where an intermediate result is used several times it is bound by       *)
(*     CHOOSE r \in { F(x) : x \in { e } } : TRUE                           *)
(* which is F(e) with e evaluated once.                                    *)
(***************************************************************************)
EXTENDS Integers, Sequences, FiniteSets, TLC

VARIABLES
    pc,            \* position of find_highest_value_in_pdf
    num_pages,     \* len(pdf.pages)
    page_num,      \* 1-based number of the page being processed
    page,          \* the page handed out by the document provider
    page_context_multiplier,
    t_idx,         \* 0-based index of the next table grid of the page
    max_value,
    max_page,
    result,        \* the returned pair, once pc = "done"
    raised,        \* TRUE once an exception reached the except clause
    offered,       \* history: every (value, page_num) compared with max_value
    last_step,     \* history: the step taken last
    calls,         \* history: the parse_value calls of the last step
    table_scale,   \* history: table_context_multiplier of the last table
    free_words,    \* history: indices of the words kept as non-table words
    pv             \* arguments and results of direct parse_value calls

vars == << pc, num_pages, page_num, page, page_context_multiplier, t_idx,
           max_value, max_page, result, raised, offered, last_step, calls,
           table_scale, free_words, pv >>

None == << "None" >>

-----------------------------------------------------------------------------
(* Characters and strings                                                  *)

Digits == { "0", "1", "2", "3", "4", "5", "6", "7", "8", "9" }

LowerCase == { "a", "b", "c", "d", "e", "f", "g", "h", "i", "j", "k", "l", "m",
               "n", "o", "p", "q", "r", "s", "t", "u", "v", "w", "x", "y", "z" }

UpperToLower ==
    [ c \in { "A", "B", "C", "D", "E", "F", "G", "H", "I", "J", "K", "L", "M",
              "N", "O", "P", "Q", "R", "S", "T", "U", "V", "W", "X", "Y", "Z" } |->
        CASE c = "A" -> "a" [] c = "B" -> "b" [] c = "C" -> "c" [] c = "D" -> "d"
          [] c = "E" -> "e" [] c = "F" -> "f" [] c = "G" -> "g" [] c = "H" -> "h"
          [] c = "I" -> "i" [] c = "J" -> "j" [] c = "K" -> "k" [] c = "L" -> "l"
          [] c = "M" -> "m" [] c = "N" -> "n" [] c = "O" -> "o" [] c = "P" -> "p"
          [] c = "Q" -> "q" [] c = "R" -> "r" [] c = "S" -> "s" [] c = "T" -> "t"
          [] c = "U" -> "u" [] c = "V" -> "v" [] c = "W" -> "w" [] c = "X" -> "x"
          [] c = "Y" -> "y" [] c = "Z" -> "z" ]

\* str.lower() on one character and on a string
LowerChar(c) == IF c \in DOMAIN UpperToLower THEN UpperToLower[c] ELSE c
Lower(s) == [ i \in 1..Len(s) |-> LowerChar(s[i]) ]

\* the regular-expression classes \d, \w and \s
IsDigit(c) == c \in Digits
WordChars == Digits \cup LowerCase \cup DOMAIN UpperToLower \cup { "_" }
IsWordChar(c) == c \in WordChars
IsSpace(c) == c = " "

\* s[p+1 .. p+n]: the n characters after offset p
Slice(s, p, n) == [ i \in 1..n |-> s[p + i] ]

\* a literal of the pattern, matched at offset p (re.IGNORECASE)
LitAt(s, p, w) ==
    /\ p + Len(w) <= Len(s)
    /\ \A i \in 1..Len(w) : LowerChar(s[p + i]) = LowerChar(w[i])

\* a literal matched at offset p, case-sensitively
ExactAt(s, p, w) ==
    /\ p + Len(w) <= Len(s)
    /\ \A i \in 1..Len(w) : s[p + i] = w[i]

\* \b at offset p: exactly one side of the offset is a word character
Boundary(s, p) ==
    LET before == p >= 1 /\ IsWordChar(s[p])
        after  == p < Len(s) /\ IsWordChar(s[p + 1])
    IN  before # after

\* length of the longest run of characters of a class starting after offset p
RECURSIVE DigitRun(_, _)
DigitRun(s, p) == IF p < Len(s) /\ IsDigit(s[p + 1]) THEN 1 + DigitRun(s, p + 1) ELSE 0

RECURSIVE WordRun(_, _)
WordRun(s, p) == IF p < Len(s) /\ IsWordChar(s[p + 1]) THEN 1 + WordRun(s, p + 1) ELSE 0

RECURSIVE SpaceRun(_, _)
SpaceRun(s, p) == IF p < Len(s) /\ IsSpace(s[p + 1]) THEN 1 + SpaceRun(s, p + 1) ELSE 0

\* number of consecutive groups ",ddd" after offset p
RECURSIVE GroupRun(_, _)
GroupRun(s, p) ==
    IF p + 4 <= Len(s) /\ s[p + 1] = "," /\ IsDigit(s[p + 2]) /\ IsDigit(s[p + 3])
       /\ IsDigit(s[p + 4])
    THEN 1 + GroupRun(s, p + 4)
    ELSE 0

RECURSIVE FlattenFrom(_, _)
FlattenFrom(ss, i) == IF i > Len(ss) THEN << >> ELSE ss[i] \o FlattenFrom(ss, i + 1)

\* the concatenation of the sequences of ss
Flatten(ss) == CHOOSE r \in { FlattenFrom(v, 1) : v \in { ss } } : TRUE

\* " ".join(texts)
RECURSIVE Join(_)
Join(texts) ==
    IF texts = << >> THEN << >>
    ELSE IF Len(texts) = 1 THEN texts[1]
    ELSE texts[1] \o << " " >> \o Join(Tail(texts))

\* str.replace(ch, "")
RECURSIVE RemoveChar(_, _)
RemoveChar(s, ch) ==
    IF s = << >> THEN << >>
    ELSE IF Head(s) = ch THEN RemoveChar(Tail(s), ch)
    ELSE << Head(s) >> \o RemoveChar(Tail(s), ch)

\* str.strip()
RECURSIVE Strip(_)
Strip(s) ==
    IF s = << >> THEN s
    ELSE IF IsSpace(s[1]) THEN Strip(Tail(s))
    ELSE IF IsSpace(s[Len(s)]) THEN Strip(SubSeq(s, 1, Len(s) - 1))
    ELSE s

\* needle in haystack
Contains(haystack, needle) ==
    \E p \in 0..Len(haystack) : ExactAt(haystack, p, needle)

-----------------------------------------------------------------------------
(* Decimal: the value c * 10^e, kept with c not divisible by ten, so that  *)
(* equal numbers are equal records, as Decimal's == is numeric.            *)

RECURSIVE Normalize(_, _)
Normalize(c, e) ==
    IF c = 0 THEN [ ninf |-> FALSE, c |-> 0, e |-> 0 ]
    ELSE IF c % 10 = 0 THEN Normalize(c \div 10, e + 1)
    ELSE [ ninf |-> FALSE, c |-> c, e |-> e ]

Dec(c, e) == Normalize(c, e)

\* Decimal("-Infinity")
NegInfinity == [ ninf |-> TRUE, c |-> 0, e |-> 0 ]

RECURSIVE Pow10(_)
Pow10(n) == IF n = 0 THEN 1 ELSE 10 * Pow10(n - 1)

RECURSIVE NumDigits(_)
NumDigits(c) == IF c < 10 THEN 1 ELSE 1 + NumDigits(c \div 10)

\* Decimal.__mul__ of two finite values (exact within the default precision)
DecMul(a, b) == Normalize(a.c * b.c, a.e + b.e)

\* Decimal.__gt__: a > b
DecGT(a, b) ==
    IF a.ninf THEN FALSE
    ELSE IF b.ninf THEN TRUE
    ELSE IF a.c = 0 THEN FALSE
    ELSE IF b.c = 0 THEN TRUE
    ELSE LET ma == NumDigits(a.c) + a.e
             mb == NumDigits(b.c) + b.e
             lo == IF a.e < b.e THEN a.e ELSE b.e
         IN  IF ma # mb THEN ma > mb
             ELSE a.c * Pow10(a.e - lo) > b.c * Pow10(b.e - lo)

DigitValue(ch) ==
    CASE ch = "0" -> 0 [] ch = "1" -> 1 [] ch = "2" -> 2 [] ch = "3" -> 3
      [] ch = "4" -> 4 [] ch = "5" -> 5 [] ch = "6" -> 6 [] ch = "7" -> 7
      [] ch = "8" -> 8 [] ch = "9" -> 9

RECURSIVE DigitsToNat(_)
DigitsToNat(ds) ==
    IF ds = << >> THEN 0
    ELSE 10 * DigitsToNat(SubSeq(ds, 1, Len(ds) - 1)) + DigitValue(ds[Len(ds)])

\* the outcome of Decimal(s) raising decimal.InvalidOperation
InvalidOperation == [ ninf |-> FALSE, c |-> 0 - 1, e |-> 0 ]

\* Decimal(s) for the unsigned fixed-point strings: digits with at most one
\* point and at least one digit.  Any other string of the model's alphabet
\* raises InvalidOperation, modelled by InvalidOperation.
\* s has ip digits, then a point and fp digits if hasPoint
FixedPoint(s, ip, hasPoint, fp) ==
    IF ip + (IF hasPoint THEN 1 + fp ELSE 0) = Len(s) /\ ip + fp >= 1
    THEN Dec(DigitsToNat(Slice(s, 0, ip) \o Slice(s, ip + 1, fp)), 0 - fp)
    ELSE InvalidOperation

DecimalOf(s) ==
    CHOOSE r \in {
        FixedPoint(t, ip, ip < Len(t) /\ t[ip + 1] = ".",
                   IF ip < Len(t) /\ t[ip + 1] = "." THEN DigitRun(t, ip + 1) ELSE 0) :
        t \in { s }, ip \in { DigitRun(s, 0) } } : TRUE

-----------------------------------------------------------------------------
(* Configuration of the program                                            *)

\* the items of MULTIPLIERS, in declaration order
MULTIPLIERS ==
    << << <<"t", "h", "o", "u", "s", "a", "n", "d">>, Dec(1, 3) >>,
       << <<"t", "h", "o", "u", "s", "a", "n", "d", "s">>, Dec(1, 3) >>,
       << <<"m", "i", "l", "l", "i", "o", "n">>, Dec(1, 6) >>,
       << <<"m", "i", "l", "l", "i", "o", "n", "s">>, Dec(1, 6) >>,
       << <<"b", "i", "l", "l", "i", "o", "n">>, Dec(1, 9) >>,
       << <<"b", "i", "l", "l", "i", "o", "n", "s">>, Dec(1, 9) >>,
       << <<"t", "r", "i", "l", "l", "i", "o", "n">>, Dec(1, 12) >>,
       << <<"t", "r", "i", "l", "l", "i", "o", "n", "s">>, Dec(1, 12) >> >>

\* w in MULTIPLIERS
InMultipliers(w) == \E i \in 1..Len(MULTIPLIERS) : MULTIPLIERS[i][1] = w

\* MULTIPLIERS[w]
MultiplierOf(w) ==
    MULTIPLIERS[CHOOSE i \in 1..Len(MULTIPLIERS) : MULTIPLIERS[i][1] = w][2]

ROW_EXCLUSION_KEYWORDS ==
    { <<"p", "e", "r", "c", "e", "n", "t", "a", "g", "e">>,
      <<"p", "e", "r", "c", "e", "n", "t">>,
      <<"%">>,
      <<"n", "u", "m", "b", "e", "r">>,
      <<"r", "a", "t", "e">>,
      <<"r", "a", "t", "i", "o">> }

One == Dec(1, 0)
Zero == Dec(0, 0)

-----------------------------------------------------------------------------
(* CONTEXT_MULTIPLIER_RE                                                   *)
(*   \(in (\w+)\) | \(\$(\w+)\) | dollars in (\w+)      re.IGNORECASE      *)

\* one alternative at offset p: a literal prefix, \w+ (greedy), and for the
\* parenthesised forms a closing ")".  \w+ giving characters back cannot help:
\* the character after a shorter run is a word character, not ")".
ContextAlt(s, p, prefix, closed) ==
    LET q == p + Len(prefix)
        n == IF LitAt(s, p, prefix) THEN WordRun(s, q) ELSE 0
    IN  IF n >= 1 /\ (~closed \/ ExactAt(s, q + n, <<")">>))
        THEN [ ok |-> TRUE, word |-> Slice(s, q, n) ]
        ELSE [ ok |-> FALSE, word |-> None ]

\* the match starting at offset p: the alternatives in pattern order
ContextMatchAt(s, p) ==
    LET a1 == ContextAlt(s, p, <<"(", "i", "n", " ">>, TRUE)
        a2 == ContextAlt(s, p, <<"(", "$">>, TRUE)
        a3 == ContextAlt(s, p, <<"d", "o", "l", "l", "a", "r", "s", " ", "i", "n", " ">>, FALSE)
    IN  IF a1.ok THEN a1 ELSE IF a2.ok THEN a2 ELSE a3

\* CONTEXT_MULTIPLIER_RE.search(s) from offset p on: the leftmost match
RECURSIVE ContextSearchFrom(_, _)
ContextSearchFrom(s, p) ==
    IF p >= Len(s) THEN [ ok |-> FALSE, word |-> None ]
    ELSE IF ContextMatchAt(s, p).ok THEN ContextMatchAt(s, p)
    ELSE ContextSearchFrom(s, p + 1)

CONTEXT_MULTIPLIER_RE(s) ==
    CHOOSE r \in { ContextSearchFrom(text, 0) : text \in { s } } : TRUE

-----------------------------------------------------------------------------
(* NUMBER_RE                                                               *)
(*   (\$?\s*(?:\d{1,3}(?:,\d{3})*|\d+)(?:\.\d+)?)\s*                        *)
(*   (thousand|million|billion|trillion)?(?=\b)          re.IGNORECASE     *)

INLINE_WORDS ==
    << <<"t", "h", "o", "u", "s", "a", "n", "d">>,
       <<"m", "i", "l", "l", "i", "o", "n">>,
       <<"b", "i", "l", "l", "i", "o", "n">>,
       <<"t", "r", "i", "l", "l", "i", "o", "n">> >>

Min(a, b) == IF a < b THEN a ELSE b

\* ends of \d{1,3}(?:,\d{3})* after offset d, where run digits follow: most
\* digits first, and for each number of digits most groups first
GroupedEnds(s, d, run) ==
    Flatten([ i \in 1..Min(3, run) |->
        [ j \in 1..(GroupRun(s, d + Min(3, run) - i + 1) + 1) |->
            d + Min(3, run) - i + 1
              + 4 * (GroupRun(s, d + Min(3, run) - i + 1) - j + 1) ] ])

\* ends of \d+ after offset d, where run digits follow: most digits first
PlainEnds(d, run) == [ i \in 1..run |-> d + run - i + 1 ]

\* ends of (?:\d{1,3}(?:,\d{3})*|\d+) for digits starting after offset d, in
\* the order the backtracking matcher tries them
IntegerEnds(s, d) ==
    CHOOSE r \in { GroupedEnds(s, d, run) \o PlainEnds(d, run) :
                    run \in { DigitRun(s, d) } } : TRUE

\* ends of (?:\.\d+)? after offset q, where fd digits follow a point: longest
\* fraction first, none last
FractionEndsOf(q, fd) == [ i \in 1..fd |-> q + 1 + fd - i + 1 ] \o << q >>

FractionEnds(s, q) ==
    FractionEndsOf(q, IF q < Len(s) /\ s[q + 1] = "." THEN DigitRun(s, q + 1) ELSE 0)

\* (thousand|million|billion|trillion)? at offset r, after group 1 ended at
\* offset q: the word first, no word last
RECURSIVE WordCandidates(_, _, _, _)
WordCandidates(s, q, r, k) ==
    IF k > Len(INLINE_WORDS)
    THEN << [ num_end |-> q, end |-> r, word |-> None ] >>
    ELSE IF LitAt(s, r, INLINE_WORDS[k])
    THEN << [ num_end |-> q, end |-> r + Len(INLINE_WORDS[k]),
              word |-> Slice(s, r, Len(INLINE_WORDS[k])) ],
            [ num_end |-> q, end |-> r, word |-> None ] >>
    ELSE WordCandidates(s, q, r, k + 1)

\* \s*(word)? after offset q, the end of group 1, where ws spaces follow: most
\* whitespace first
TailCandidatesOf(s, q, ws) ==
    Flatten([ i \in 1..(ws + 1) |-> WordCandidates(s, q, q + ws - i + 1, 1) ])

TailCandidates(s, q) == TailCandidatesOf(s, q, SpaceRun(s, q))

\* the candidates after each end of the fraction, for integer ends ie
NumberEnds(s, ie) == Flatten([ i \in 1..Len(ie) |-> FractionEnds(s, ie[i]) ])

CandidatesAt(s, ne) == Flatten([ i \in 1..Len(ne) |-> TailCandidates(s, ne[i]) ])

\* all ways to match from the first digit on, in backtracking order
NumberCandidates(s, d) ==
    CHOOSE r \in { CandidatesAt(s, ne) :
        ne \in { NumberEnds(s, ie) : ie \in { IntegerEnds(s, d) } } } : TRUE

\* the first candidate from index i on that ends at a word boundary, (?=\b)
RECURSIVE FirstAtBoundary(_, _, _, _)
FirstAtBoundary(s, p, cs, i) ==
    IF i > Len(cs) THEN [ ok |-> FALSE, end |-> p, num_str |-> << >>, word |-> None ]
    ELSE IF Boundary(s, cs[i].end)
    THEN [ ok |-> TRUE, end |-> cs[i].end,
           num_str |-> Slice(s, p, cs[i].num_end - p), word |-> cs[i].word ]
    ELSE FirstAtBoundary(s, p, cs, i + 1)

\* where the digits start for a match at offset p: after \$?\s*, which are
\* decided by the text (giving "$" or whitespace back leaves a non-digit
\* where a digit is required)
DigitStart(s, p) ==
    IF p < Len(s) /\ s[p + 1] = "$" THEN p + 1 + SpaceRun(s, p + 1)
    ELSE p + SpaceRun(s, p)

\* NUMBER_RE.match(s, p)
NumberMatchAt(s, p) ==
    CHOOSE r \in { FirstAtBoundary(s, p, cs, 1) :
                    cs \in { NumberCandidates(s, DigitStart(s, p)) } } : TRUE

\* NUMBER_RE.finditer(s) from offset p on: the groups() of the successive
\* non-overlapping matches, left to right
RECURSIVE NumberFindFrom(_, _)
NumberFindFrom(s, p) ==
    IF p >= Len(s) THEN << >>
    ELSE CHOOSE r \in {
             IF m.ok
             THEN << [ num_str |-> m.num_str, word |-> m.word ] >>
                  \o NumberFindFrom(s, m.end)
             ELSE NumberFindFrom(s, p + 1) : m \in { NumberMatchAt(s, p) } } : TRUE

NUMBER_RE(s) == CHOOSE r \in { NumberFindFrom(text, 0) : text \in { s } } : TRUE

-----------------------------------------------------------------------------
(* clean_number_string and parse_value                                     *)

clean_number_string(s) == Strip(RemoveChar(RemoveChar(s, "$"), ","))

InlineTimesContext(base_number, word_lower, context_multiplier) ==
    DecMul(DecMul(base_number, MultiplierOf(word_lower)), context_multiplier)

\* the value returned when the inline word decides (line 72)
InlineProduct(base_number, word_lower, context_multiplier) ==
    DecMul(base_number, MultiplierOf(word_lower))

\* lines 68-75, once Decimal() has returned base_number
Scaled(base_number, multiplier_word, context_multiplier) ==
    IF multiplier_word # None /\ multiplier_word # << >>
       /\ InMultipliers(Lower(multiplier_word))
    THEN InlineProduct(base_number, Lower(multiplier_word), context_multiplier)
    ELSE DecMul(base_number, context_multiplier)

parse_value(num_str, multiplier_word, context_multiplier) ==
    CHOOSE r \in {
        IF base_number = InvalidOperation THEN Zero
        ELSE Scaled(base_number, multiplier_word, context_multiplier) :
        base_number \in { DecimalOf(clean_number_string(num_str)) } } : TRUE

-----------------------------------------------------------------------------
(* Pages, as the document provider hands them out.  A word is a record     *)
(* [text, x0, top, x1, bottom]; a table grid is a sequence of rows of      *)
(* cells, a cell a string or None; a detected table is its bbox            *)
(* <<x0, top, x1, bottom>>.                                                *)

\* Python truth value of a cell, a row or a table: None and empty are false
Falsy(x) == x = None \/ x = << >>

\* the fraction of the page height that counts as its header (line 103)
HEADER_PERCENT == 15

\* the distance from a table's top or bottom edge that counts as near (151)
NEARBY_DISTANCE == 80

Abs(x) == IF x < 0 THEN 0 - x ELSE x

OverlapsOrTouches(w_x0, w_top, w_x1, w_bottom, b_x0, b_top, b_x1, b_bottom) ==
    w_x0 <= b_x1 /\ w_x1 >= b_x0 /\ w_top <= b_bottom /\ w_bottom >= b_top

\* the comparison of one word box with one table box (line 86)
Overlaps(w_x0, w_top, w_x1, w_bottom, b_x0, b_top, b_x1, b_bottom) ==
    w_x0 < b_x1 /\ w_x1 > b_x0 /\ w_top < b_bottom /\ w_bottom > b_top

is_within_bboxes(word, bboxes) ==
    \E i \in 1..Len(bboxes) :
        Overlaps(word.x0, word.top, word.x1, word.bottom,
                 bboxes[i][1], bboxes[i][2], bboxes[i][3], bboxes[i][4])

\* the texts of the words of ws whose index is in keep, in order, where the
\* first word of ws has index first
RECURSIVE TextsFrom(_, _, _)
TextsFrom(ws, first, keep) ==
    IF ws = << >> THEN << >>
    ELSE (IF first \in keep THEN << Head(ws).text >> ELSE << >>)
         \o TextsFrom(Tail(ws), first + 1, keep)

TextsAt(ws, keep) == TextsFrom(ws, 1, keep)

\* what a context match asserts: the factor of its captured word when the
\* word is a key of MULTIPLIERS, and otherwise the given default
MatchedMultiplier(match, default) ==
    IF match.ok /\ match.word # << >> /\ InMultipliers(Lower(match.word))
    THEN MultiplierOf(Lower(match.word))
    ELSE default

\* w["top"] < page_height * 0.15
InHeader(p, w) == w.top * 100 < p.height * HEADER_PERCENT

\* header_text (lines 103-104)
HeaderText(p) ==
    Join(TextsAt(p.words, { i \in 1..Len(p.words) : InHeader(p, p.words[i]) }))

get_page_level_multiplier(p) ==
    IF p.words = << >> THEN One
    ELSE CHOOSE r \in { MatchedMultiplier(context_match, One) :
             context_match \in { CONTEXT_MULTIPLIER_RE(HeaderText(p)) } } : TRUE

\* table_bboxes (line 137)
TableBboxes(p) == SelectSeq(p.detected, LAMBDA b : ~Falsy(b))

\* the test of lines 149-153 for one word and the table's bbox
IsNearby(word, bbox) ==
    /\ bbox[1] <= word.x0 /\ word.x0 <= bbox[3]
    /\ \/ Abs(word.top - bbox[2]) < NEARBY_DISTANCE
       \/ Abs(word.bottom - bbox[4]) < NEARBY_DISTANCE

\* nearby_text (lines 146-154): " " + text for every nearby word
SpacedTexts(texts) == Flatten([ i \in 1..Len(texts) |-> << " " >> \o texts[i] ])

NearbyText(p, bbox) ==
    SpacedTexts(TextsAt(p.words, { i \in 1..Len(p.words) : IsNearby(p.words[i], bbox) }))

TableTimesPage(table_multiplier, page_multiplier) ==
    DecMul(table_multiplier, page_multiplier)

\* how a table-level match combines with the page-level multiplier (161)
TableOverride(table_multiplier, page_multiplier) == table_multiplier

\* lines 156-163, for the match found in nearby_text
NearbyMultiplier(nearby_match, page_multiplier) ==
    IF nearby_match.ok /\ InMultipliers(Lower(nearby_match.word))
    THEN TableOverride(MultiplierOf(Lower(nearby_match.word)), page_multiplier)
    ELSE page_multiplier

\* table_context_multiplier (lines 144-163)
TableContextMultiplier(p, bbox, page_multiplier) ==
    CHOOSE r \in { NearbyMultiplier(nearby_match, page_multiplier) :
        nearby_match \in { CONTEXT_MULTIPLIER_RE(NearbyText(p, bbox)) } } : TRUE

\* re.search(r"\b" + re.escape(word) + r"\b", text)
WholeWordIn(text, word) ==
    \E q \in 0..Len(text) :
        ExactAt(text, q, word) /\ Boundary(text, q) /\ Boundary(text, q + Len(word))

\* the columns given a multiplier by the header row (lines 169-180); columns
\* are numbered from 1 here, and from 0 in the program
\* the loop of lines 175-180 over MULTIPLIERS.items() from item i on: the
\* index of the first item whose word occurs in the text, or 0
RECURSIVE FirstMultiplierIn(_, _)
FirstMultiplierIn(header_text_lower, i) ==
    IF i > Len(MULTIPLIERS) THEN 0
    ELSE IF WholeWordIn(header_text_lower, MULTIPLIERS[i][1]) THEN i
    ELSE FirstMultiplierIn(header_text_lower, i + 1)

\* the item of MULTIPLIERS a header cell selects, or 0 (lines 172-180)
HeaderItem(header_cell) ==
    IF Falsy(header_cell) THEN 0
    ELSE CHOOSE r \in { FirstMultiplierIn(header_text_lower, 1) :
             header_text_lower \in { Lower(header_cell) } } : TRUE

\* column_multipliers (lines 169-180); columns are numbered from 1 here and
\* from 0 in the program
column_multipliers(header_row) ==
    [ c \in { x \in 1..Len(header_row) : HeaderItem(header_row[x]) # 0 } |->
        MULTIPLIERS[HeaderItem(header_row[c])][2] ]

\* is_excluded_row (lines 187-189)
is_excluded_row(row) ==
    \E first \in { Lower(row[1]) } :
        \E kw \in ROW_EXCLUSION_KEYWORDS : Contains(first, kw)

ExclusionFirst(col_mult, col, table_multiplier, excluded) ==
    IF excluded THEN One
    ELSE IF col \in DOMAIN col_mult THEN col_mult[col]
    ELSE table_multiplier

\* context_mult (lines 200-205): column_multipliers.get(col_idx, default)
ContextMult(col_mult, col, table_multiplier, excluded) ==
    IF col \in DOMAIN col_mult THEN col_mult[col]
    ELSE IF ~excluded THEN table_multiplier
    ELSE One

\* whether the loop over data rows goes into the row (line 184)
RowIsProcessed(row) == ~(Falsy(row) \/ Falsy(row[1]))

\* the parse_value calls made for one cell (lines 195-208)
\* the parse_value calls for the matches of one text
CallsFor(matches, origin, r, c, context_mult) ==
    [ k \in 1..Len(matches) |->
        [ origin |-> origin, row |-> r, col |-> c,
          num_str |-> matches[k].num_str, word |-> matches[k].word,
          context_mult |-> context_mult,
          value |-> parse_value(matches[k].num_str, matches[k].word, context_mult) ] ]

CellCalls(cell, r, c, context_mult) ==
    CHOOSE cs \in { CallsFor(matches, "table", r, c, mult) :
        matches \in { NUMBER_RE(cell) }, mult \in { context_mult } } : TRUE

\* the parse_value calls made for one data row (lines 184-208)
RowCalls(row, r, col_mult, table_multiplier) ==
    IF ~RowIsProcessed(row) THEN << >>
    ELSE CHOOSE cs \in {
             Flatten([ c \in 1..Len(row) |->
                 IF Falsy(row[c]) THEN << >>
                 ELSE CellCalls(row[c], r, c,
                          ContextMult(col_mult, c, table_multiplier, is_excluded)) ]) :
             is_excluded \in { is_excluded_row(row) } } : TRUE

\* the parse_value calls made for one table, in order (lines 183-208)
TableCalls(table, table_multiplier) ==
    CHOOSE cs \in {
        Flatten([ i \in 1..(Len(table) - 1) |->
            RowCalls(table[i + 1], i + 1, col_mult, table_multiplier) ]) :
        col_mult \in { column_multipliers(table[1]) } } : TRUE

\* the indices of the words kept as non_table_words (lines 219-223)
NonTableWords(p) ==
    { i \in 1..Len(p.words) : ~is_within_bboxes(p.words[i], TableBboxes(p)) }

\* non_table_text (line 224)
NonTableText(p) == Join(TextsAt(p.words, NonTableWords(p)))

PageContextMult(page_multiplier) == page_multiplier

\* the multiplier handed to parse_value for non-table text (line 229)
NonTableContextMult(page_multiplier) == One

\* the parse_value calls made for the non-table text (lines 225-229)
TextCalls(p, page_multiplier) ==
    CHOOSE cs \in { CallsFor(matches, "text", 0, 0, mult) :
        matches \in { IF NonTableText(p) = << >> THEN << >>
                      ELSE NUMBER_RE(NonTableText(p)) },
        mult \in { NonTableContextMult(page_multiplier) } } : TRUE

ExceedsOrEquals(value, current) == ~DecGT(current, value)

AlwaysReplaces(value, current) == TRUE

\* value > max_value (lines 210 and 230)
Exceeds(value, current) == DecGT(value, current)

\* the running maximum after the values of cs were compared in order
\* (lines 210-212 and 230-232)
Best(value, pg) == [ value |-> value, page |-> pg ]

RECURSIVE UpdateMax(_, _, _)
UpdateMax(best, cs, pn) ==
    IF cs = << >> THEN best
    ELSE IF Exceeds(Head(cs).value, best.value)
    THEN UpdateMax(Best(Head(cs).value, pn), Tail(cs), pn)
    ELSE UpdateMax(best, Tail(cs), pn)

-----------------------------------------------------------------------------
(* The documents explored: every page is assembled from a header line, a   *)
(* line just above the first table, one word placed against the first      *)
(* table's box, a line of free text, a list of table grids and the list of *)
(* detected tables.                                                        *)

MaxPages == 2

\* words of one line: 50 wide and 10 high, 60 apart, starting at (x0, top)
Line(texts, x0, top) ==
    [ i \in 1..Len(texts) |->
        [ text |-> texts[i], x0 |-> x0 + 60 * (i - 1), top |-> top,
          x1 |-> x0 + 60 * (i - 1) + 50, bottom |-> top + 10 ] ]

Bbox1 == << 100, 400, 500, 700 >>
Bbox2 == << 100, 1000, 500, 1300 >>

\* words against Bbox1: one inside it, one touching its right edge, or one
\* half inside it followed by one touching its right edge
BoxWord(i) ==
    CASE i = 0 -> << >>
      [] i = 1 -> << [ text |-> <<"9", ",", "9", "9", "9", ",", "9", "9", "9">>, x0 |-> 150, top |-> 500,
                       x1 |-> 250, bottom |-> 510 ] >>
      [] i = 2 -> << [ text |-> <<"8", "8">>, x0 |-> 500, top |-> 500,
                       x1 |-> 560, bottom |-> 510 ] >>
      [] i = 3 -> << [ text |-> <<"7", "7", "7", "7", "7">>, x0 |-> 450, top |-> 500,
                       x1 |-> 560, bottom |-> 510 ],
                     [ text |-> <<"8", "8">>, x0 |-> 500, top |-> 520,
                       x1 |-> 560, bottom |-> 530 ] >>

\* below and to the right of every table
FreeLine(i) ==
    CASE i = 0 -> << >>
      [] i = 1 -> Line(<< <<"$", "5", "0", "0">>, <<"m", "i", "l", "l", "i", "o", "n">> >>, 600, 1600)
      [] i = 2 -> Line(<< <<"0">> >>, 600, 1600)
      [] i = 3 -> Line(<< <<"7">>, <<"m", "i", "l", "l", "i", "o", "n", "s">>, <<"2", "5", "0", "0", "0", "0">> >>, 600, 1600)

TableAmount ==
    << << <<"I", "t", "e", "m">>, <<"A", "m", "o", "u", "n", "t">> >>,
       << <<"R", "e", "v", "e", "n", "u", "e">>, <<"1", ",", "2", "3", "4", ".", "5">> >> >>

TableColumns ==
    << << <<"I", "t", "e", "m">>, <<"A", "m", "o", "u", "n", "t", " ", "(", "i", "n", " ", "t", "h", "o", "u", "s", "a", "n", "d", "s", ")">>, <<"O", "t", "h", "e", "r">> >>,
       << <<"R", "e", "v", "e", "n", "u", "e">>, <<"4", "5", ".", "2">>, <<"3">> >>,
       << <<"G", "r", "o", "w", "t", "h", " ", "R", "a", "t", "e">>, <<"1", "2", ".", "3", "%">>, <<"6">> >> >>

TableUnlabelled ==
    << << <<"I", "t", "e", "m">>, <<"A", "m", "o", "u", "n", "t">> >>,
       << None, <<"9", "0", "0">> >>,
       << << >>, <<"$", "2", " ", "b", "i", "l", "l", "i", "o", "n">> >> >>

TableRatio ==
    << << None, <<"V", "a", "l", "u", "e">> >>,
       << <<"R", "a", "t", "i", "o">>, <<"7", " ", "m", "i", "l", "l", "i", "o", "n">> >>,
       << <<"T", "o", "t", "a", "l">>, <<"0">> >> >>

TableNoHeader == << << >>, << <<"R", "e", "v", "e", "n", "u", "e">>, <<"5">> >> >>

\* table grids with their detected tables: one per grid, or the last missing
TableChoices ==
    { << << >>, << >> >>,
      << << TableAmount >>, << Bbox1 >> >>,
      << << TableColumns >>, << Bbox1 >> >>,
      << << TableUnlabelled >>, << Bbox1 >> >>,
      << << TableRatio >>, << Bbox1 >> >>,
      << << TableNoHeader, TableAmount >>, << Bbox1, Bbox2 >> >>,
      << << TableAmount, TableColumns >>, << Bbox1, Bbox2 >> >>,
      << << TableAmount, TableColumns >>, << Bbox1 >> >> }

Header(i) ==
    CASE i = 0 -> << >>
      [] i = 1 -> Line(<< <<"(", "I", "n">>, <<"B", "i", "l", "l", "i", "o", "n", "s", ")">> >>, 600, 50)
      [] i = 2 -> Line(<< <<"(", "i", "n">>, <<"z", "i", "l", "l", "i", "o", "n", "s", ")">>, <<"(", "i", "n">>, <<"t", "h", "o", "u", "s", "a", "n", "d", "s", ")">> >>, 600, 50)

Near(i) ==
    CASE i = 0 -> << >>
      [] i = 1 -> Line(<< <<"(", "$", "t", "h", "o", "u", "s", "a", "n", "d", "s", ")">> >>, 110, 350)
      [] i = 2 -> Line(<< <<"(", "i", "n">>, <<"z", "i", "l", "l", "i", "o", "n", "s", ")">>, <<"d", "o", "l", "l", "a", "r", "s">>, <<"i", "n">>, <<"m", "i", "l", "l", "i", "o", "n", "s">> >>, 110, 350)

\* pages that vary the scale annotations around every choice of tables
TablePages ==
    { [ height |-> 2000, words |-> Header(hn[1]) \o Near(hn[2]),
        tables |-> tc[1], detected |-> tc[2] ] :
        hn \in { << 1, 0 >>, << 1, 1 >>, << 1, 2 >> }, tc \in TableChoices }

\* pages without a recognised header annotation
BarePages ==
    { [ height |-> 2000, words |-> Header(hn[1]) \o Near(hn[2]),
        tables |-> << t >>, detected |-> << Bbox1 >> ] :
        hn \in { << 0, 0 >>, << 2, 1 >> }, t \in { TableAmount, TableColumns } }

\* pages that vary the words outside and against the box of one table
TextPages ==
    { [ height |-> 2000, words |-> Header(h) \o BoxWord(bf[1]) \o FreeLine(bf[2]),
        tables |-> << TableAmount >>, detected |-> << Bbox1 >> ] :
        h \in { 0, 1 },
        bf \in { << 0, 1 >>, << 0, 2 >>, << 0, 3 >>, << 1, 0 >>, << 2, 0 >>,
                 << 3, 0 >>, << 2, 3 >> } }

\* pages without tables
PlainPages ==
    { [ height |-> 2000, words |-> Header(h) \o FreeLine(f),
        tables |-> << >>, detected |-> << >> ] : h \in { 0, 1 }, f \in 1..3 }

Pages == TablePages \cup BarePages \cup TextPages \cup PlainPages

NoPage == [ height |-> 0, words |-> << >>, tables |-> << >>, detected |-> << >> ]

-----------------------------------------------------------------------------
(* find_highest_value_in_pdf                                               *)

\* the pair of values a return statement gives
Returned(value, pg) == [ none |-> FALSE, value |-> value, page |-> pg ]
NoneResult == [ none |-> TRUE, value |-> Zero, page |-> 0 ]

ZeroMaxValue == Zero

\* max_value before the scan (line 117)
InitialMaxValue == NegInfinity

PartialResult(value, pg) == Returned(value, pg)

\* what the except clause returns (lines 237-239)
ExceptResult(value, pg) == NoneResult

PvOff == [ phase |-> "off", num_str |-> << >>, word |-> None, f1 |-> One,
           f2 |-> One, out1 |-> Zero, out2 |-> Zero ]

Init ==
    /\ pc = "open"
    /\ num_pages = 0
    /\ page_num = 0
    /\ page = NoPage
    /\ page_context_multiplier = One
    /\ t_idx = 0
    /\ max_value = InitialMaxValue
    /\ max_page = 0 - 1
    /\ result = NoneResult
    /\ raised = FALSE
    /\ offered = {}
    /\ last_step = "none"
    /\ calls = << >>
    /\ table_scale = One
    /\ free_words = {}
    /\ pv = PvOff

\* lines 121-122: the document opens and has some number of pages
Open ==
    /\ pc = "open"
    /\ \E n \in 0..MaxPages : num_pages' = n
    /\ pc' = "pages"
    /\ last_step' = "open"
    /\ UNCHANGED << page_num, page, page_context_multiplier, t_idx, max_value,
                    max_page, result, raised, offered, calls, table_scale,
                    free_words, pv >>

\* an exception anywhere inside the try block reaches lines 237-239
Except(step) ==
    /\ pc' = "done"
    /\ raised' = TRUE
    /\ result' = ExceptResult(max_value, max_page)
    /\ last_step' = step
    /\ UNCHANGED << num_pages, page_num, page, page_context_multiplier, t_idx,
                    max_value, max_page, offered, calls, table_scale, free_words, pv >>

\* pdfplumber.open raises: the document cannot be opened
OpenRaises == pc = "open" /\ Except("open_raises")

\* the provider raises while the next page is read
PageRaises == pc = "pages" /\ page_num < num_pages /\ Except("page_raises")

\* lines 124-137: the next page, its page-level multiplier and its tables
NextPage ==
    /\ pc = "pages"
    /\ page_num < num_pages
    /\ \E p \in Pages :
          /\ page' = p
          /\ page_context_multiplier' = get_page_level_multiplier(p)
    /\ page_num' = page_num + 1
    /\ t_idx' = 0
    /\ pc' = "tables"
    /\ last_step' = "page"
    /\ calls' = << >>
    /\ table_scale' = One
    /\ free_words' = {}
    /\ UNCHANGED << num_pages, max_value, max_page, result, raised, offered, pv >>

\* the table grid the loop of line 139 is at
CurrentTable == page.tables[t_idx + 1]

\* lines 140-141: an empty table or an empty header row is passed over
SkipTable ==
    /\ pc = "tables"
    /\ t_idx < Len(page.tables)
    /\ Falsy(CurrentTable) \/ Falsy(CurrentTable[1])
    /\ t_idx' = t_idx + 1
    /\ last_step' = "skip"
    /\ calls' = << >>
    /\ UNCHANGED << pc, num_pages, page_num, page, page_context_multiplier,
                    max_value, max_page, result, raised, offered, table_scale,
                    free_words, pv >>

\* line 145: detected_tables[t_idx] raises IndexError
TableRaises ==
    /\ pc = "tables"
    /\ t_idx < Len(page.tables)
    /\ ~(Falsy(CurrentTable) \/ Falsy(CurrentTable[1]))
    /\ t_idx >= Len(page.detected)
    /\ Except("table_raises")

\* lines 143-215: one table, all its rows and cells
ProcessTable ==
    /\ pc = "tables"
    /\ t_idx < Len(page.tables)
    /\ ~(Falsy(CurrentTable) \/ Falsy(CurrentTable[1]))
    /\ t_idx < Len(page.detected)
    /\ table_scale' = TableContextMultiplier(page, page.detected[t_idx + 1],
                                             page_context_multiplier)
    /\ calls' = TableCalls(CurrentTable, table_scale')
    /\ max_value' = UpdateMax(Best(max_value, max_page), calls', page_num).value
    /\ max_page' = UpdateMax(Best(max_value, max_page), calls', page_num).page
    /\ offered' = offered \cup { << calls'[k].value, page_num >> : k \in 1..Len(calls') }
    /\ t_idx' = t_idx + 1
    /\ last_step' = "table"
    /\ UNCHANGED << pc, num_pages, page_num, page, page_context_multiplier,
                    result, raised, free_words, pv >>

\* lines 217-235: the words outside every detected table
ProcessNonTableText ==
    /\ pc = "tables"
    /\ t_idx = Len(page.tables)
    /\ free_words' = NonTableWords(page)
    /\ calls' = TextCalls(page, page_context_multiplier)
    /\ max_value' = UpdateMax(Best(max_value, max_page), calls', page_num).value
    /\ max_page' = UpdateMax(Best(max_value, max_page), calls', page_num).page
    /\ offered' = offered \cup { << calls'[k].value, page_num >> : k \in 1..Len(calls') }
    /\ pc' = "pages"
    /\ last_step' = "text"
    /\ UNCHANGED << num_pages, page_num, page, page_context_multiplier, t_idx,
                    result, raised, table_scale, pv >>

\* lines 241-245: after the last page
Return ==
    /\ pc = "pages"
    /\ page_num = num_pages
    /\ result' = IF max_value = NegInfinity THEN NoneResult
                 ELSE Returned(max_value, max_page)
    /\ pc' = "done"
    /\ last_step' = "return"
    /\ UNCHANGED << num_pages, page_num, page, page_context_multiplier, t_idx,
                    max_value, max_page, raised, offered, calls, table_scale,
                    free_words, pv >>

Next ==
    \/ Open
    \/ OpenRaises
    \/ PageRaises
    \/ NextPage
    \/ SkipTable
    \/ TableRaises
    \/ ProcessTable
    \/ ProcessNonTableText
    \/ Return

Spec == Init /\ [][Next]_vars

-----------------------------------------------------------------------------
(* parse_value called directly, twice with the same literal and inline     *)
(* word and two fallback multipliers                                       *)

Literals ==
    { <<"5">>, <<"$", "1", ",", "2", "3", "4", ".", "5">>, <<"1", "2", ".", "3">>, <<" ", "0", ".", "5", "0">>, <<"$", " ", "7">>,
      <<"1", ",", "0", "0", "0", ",", "0", "0", "0">>, <<"a", "b", "c">>, << >> }

InlineArguments ==
    { None, << >>, <<"m", "i", "l", "l", "i", "o", "n">>, <<"B", "i", "l", "l", "i", "o", "n">>, <<"T", "H", "O", "U", "S", "A", "N", "D">>,
      <<"t", "r", "i", "l", "l", "i", "o", "n">>, <<"m", "i", "l", "l", "i", "o", "n", "s">>, <<"z", "i", "l", "l", "i", "o", "n">> }

Fallbacks == { One, Dec(1, 3), Dec(1, 6), Dec(25, 0 - 1) }

InitPV ==
    /\ pc = "parse_value"
    /\ num_pages = 0
    /\ page_num = 0
    /\ page = NoPage
    /\ page_context_multiplier = One
    /\ t_idx = 0
    /\ max_value = InitialMaxValue
    /\ max_page = 0 - 1
    /\ result = NoneResult
    /\ raised = FALSE
    /\ offered = {}
    /\ last_step = "none"
    /\ calls = << >>
    /\ table_scale = One
    /\ free_words = {}
    /\ \E l \in Literals, w \in InlineArguments, g1 \in Fallbacks, g2 \in Fallbacks :
          pv = [ phase |-> "args", num_str |-> l, word |-> w, f1 |-> g1, f2 |-> g2,
                 out1 |-> Zero, out2 |-> Zero ]

CallParseValue ==
    /\ pv.phase = "args"
    /\ pv' = [ pv EXCEPT !.phase = "done",
                         !.out1 = parse_value(pv.num_str, pv.word, pv.f1),
                         !.out2 = parse_value(pv.num_str, pv.word, pv.f2) ]
    /\ UNCHANGED << pc, num_pages, page_num, page, page_context_multiplier, t_idx,
                    max_value, max_page, result, raised, offered, last_step, calls,
                    table_scale, free_words >>

NextPV == CallParseValue

SpecPV == InitPV /\ [][NextPV]_vars

-----------------------------------------------------------------------------
(* Properties                                                              *)

\* the table grid the last step processed
LastTable == page.tables[t_idx]

\* whether w is an inline word that decides the scale
IsScaleWord(w) == w # None /\ w # << >> /\ InMultipliers(Lower(w))

\* C1: after a scan without an exception in which a value was offered, the
\* returned value is the greatest value offered on any page, and the returned
\* page is the first page on which that value was offered.
C1_ReturnsFirstMaximum ==
    (pc = "done" /\ ~raised /\ offered # {}) =>
        /\ ~result.none
        /\ << result.value, result.page >> \in offered
        /\ \A o \in offered : ~DecGT(o[1], result.value)
        /\ \A o \in offered : o[1] = result.value => result.page <= o[2]

\* a scan returned a value that was offered again on a later page
C1_Witness ==
    /\ pc = "done" /\ ~raised /\ ~result.none
    /\ result.page = 1
    /\ << result.value, 2 >> \in offered

\* C2: no step of the scan lowers max_value; -Infinity, the empty state, is
\* below every value.
C2_MaxNeverDecreases == [][~DecGT(max_value, max_value')]_vars

\* a value below the running maximum was offered on a page after the page of
\* the maximum
C2_Witness ==
    /\ max_page >= 1
    /\ \E o \in offered : o[2] > max_page /\ DecGT(max_value, o[1])

C4_InlinePrecedence ==
    pv.phase = "done" =>
        \A base \in { DecimalOf(clean_number_string(pv.num_str)) } \ { InvalidOperation } :
            IF IsScaleWord(pv.word)
            THEN /\ pv.out1 = DecMul(base, MultiplierOf(Lower(pv.word)))
                 /\ pv.out2 = pv.out1
            ELSE /\ pv.out1 = DecMul(base, pv.f1)
                 /\ pv.out2 = DecMul(base, pv.f2)

\* parse_value was called with an inline word of the lexicon and two
\* different fallbacks, neither 1, on a literal that is not zero
C4_Witness ==
    /\ pv.phase = "done"
    /\ IsScaleWord(pv.word)
    /\ pv.f1 # pv.f2 /\ pv.f1 # One /\ pv.f2 # One
    /\ pv.out1 # Zero
    /\ pv.out1 = pv.out2

\* C5: a complete scan returns (None, None) exactly when no value was
\* offered, and when every value offered is zero it returns zero with a page
\* on which zero was offered.
C5_NotFoundIsNotZero ==
    (pc = "done" /\ ~raised) =>
        /\ result.none <=> offered = {}
        /\ (offered # {} /\ \A o \in offered : o[1] = Zero) =>
               (~result.none /\ result.value = Zero
                  /\ << Zero, result.page >> \in offered)

\* a complete scan returned the value zero
C5_Witness ==
    /\ pc = "done" /\ ~raised
    /\ ~result.none /\ result.value = Zero /\ result.page >= 1

\* C6: every value offered from non-table text is the literal times the
\* factor of its inline word, or times exactly 1 without one, whatever the
\* page-level multiplier is.
C6_FreeTextUnscaled ==
    last_step = "text" =>
        \A k \in 1..Len(calls) :
            \A base \in { DecimalOf(clean_number_string(calls[k].num_str)) } :
                /\ base # InvalidOperation
                /\ calls[k].context_mult = One
                /\ calls[k].value =
                       IF IsScaleWord(calls[k].word)
                       THEN DecMul(base, MultiplierOf(Lower(calls[k].word)))
                       ELSE base

\* "$500 million" in the non-table text of a page whose header says billions
\* was offered as 500000000
C6_Witness ==
    /\ last_step = "text"
    /\ page_context_multiplier = Dec(1, 9)
    /\ \E k \in 1..Len(calls) :
          /\ calls[k].num_str = <<"$", "5", "0", "0">>
          /\ calls[k].word = <<"m", "i", "l", "l", "i", "o", "n">>
          /\ calls[k].value = Dec(5, 8)

\* C7: once an exception was raised the scan is over, no further step is
\* taken, and the result is (None, None) whatever was accumulated.
C7_FailureIsFatal ==
    raised => (pc = "done" /\ result = NoneResult /\ ~ENABLED Next)

\* an exception was raised by a missing detected table after values had been
\* accumulated and while a page was still to come
C7_Witness ==
    /\ raised
    /\ last_step = "table_raises"
    /\ max_value # NegInfinity
    /\ page_num < num_pages

\* C8: every token of every non-empty cell of every data row of a processed
\* table is offered to the running maximum, also on a row whose first cell
\* is empty or None.
C8_EveryDataRowScanned ==
    last_step = "table" =>
        \A r \in 2..Len(LastTable) :
            \A c \in 1..Len(LastTable[r]) :
                ~Falsy(LastTable[r][c]) =>
                    \A tokens \in { NUMBER_RE(LastTable[r][c]) } :
                        \A j \in 1..Len(tokens) :
                            \E k \in 1..Len(calls) :
                                /\ calls[k].row = r /\ calls[k].col = c
                                /\ calls[k].num_str = tokens[j].num_str
                                /\ << calls[k].value, page_num >> \in offered

\* C9: the table scale is the factor of the captured word of the leftmost
\* context match in the text near the table when that word is in the
\* lexicon, and the page scale otherwise.
C9_TableScale ==
    last_step = "table" =>
        \A text \in { NearbyText(page, page.detected[t_idx]) } :
            \A starts \in { { q \in 0..Len(text) : ContextMatchAt(text, q).ok } } :
                IF starts = {} THEN table_scale = page_context_multiplier
                ELSE \A first \in { q \in starts : \A x \in starts : q <= x } :
                         \A w \in { Lower(ContextMatchAt(text, first).word) } :
                             table_scale = IF InMultipliers(w) THEN MultiplierOf(w)
                                           ELSE page_context_multiplier

\* a table near "($thousands)" on a page whose header says billions got the
\* scale 1000
C9_Witness ==
    /\ last_step = "table"
    /\ page_context_multiplier = Dec(1, 9)
    /\ CONTEXT_MULTIPLIER_RE(NearbyText(page, page.detected[t_idx])).ok
    /\ table_scale = Dec(1, 3)

\* C10: the words kept as non-table text are exactly the words that overlap
\* no detected table box, with strict inequalities on all four sides, and
\* the numbers offered from non-table text are the numbers of those words.
C10_StrictOverlapPartition ==
    last_step = "text" =>
        /\ free_words =
             { i \in 1..Len(page.words) :
                 ~\E j \in 1..Len(page.detected) :
                     /\ page.words[i].x0 < page.detected[j][3]
                     /\ page.words[i].x1 > page.detected[j][1]
                     /\ page.words[i].top < page.detected[j][4]
                     /\ page.words[i].bottom > page.detected[j][2] }
        /\ Len(calls) = Len(NUMBER_RE(Join(TextsAt(page.words, free_words))))

\* a word half inside a table box was left out and a word touching the
\* box's right edge was kept, and only the latter's number was offered
C10_Witness ==
    /\ last_step = "text"
    /\ \E i \in 1..Len(page.words), j \in 1..Len(page.words) :
          /\ i \notin free_words
          /\ page.words[i].text = <<"7", "7", "7", "7", "7">>
          /\ j \in free_words
          /\ page.words[j].x0 = page.detected[1][3]
          /\ Len(calls) = 1
          /\ calls[1].num_str = page.words[j].text
=============================================================================
